---------------------------- MODULE Spec2Model ----------------------------
(***************************************************************************)
(* A model of the Sokoban search core: the heuristic library               *)
(* (search_methods/heuristics.py), the IDA* solver                         *)
(* (search_methods/ida_star.py) and the simulated annealing solver         *)
(* (search_methods/simulated_annealing.py).                                *)
(*                                                                         *)
(* The board class (sokoban.map.Map) is not part of the sources; its       *)
(* operations are modelled from the specification's external interface     *)
(* (copy, apply_move, filter_possible_moves, is_solved, canonical          *)
(* identity).                                                              *)
(*                                                                         *)
(* Heuristic values are real numbers with one decimal of a half (2.5 per   *)
(* distance unit, 0.1 per explored state).  Every cost in the model is the *)
(* code's value multiplied by Scale (10), so that all arithmetic is exact  *)
(* integer arithmetic: g, f, limit, score, the ceiling 10000.              *)
(*                                                                         *)
(* Map objects are mutable and Python variables hold references to them.   *)
(* The model keeps a heap (a sequence of objects) and variables hold       *)
(* indexes into it: heap[1] is the solver's self.map.                      *)
(***************************************************************************)
EXTENDS Integers, Sequences, FiniteSets, TLC

(* ------------------------------ bounds --------------------------------- *)
\* The enumerated boards have two rows and GridWidth columns.
GridWidth == 3
\* At most this many obstacle cells on an enumerated board.
MaxObstacles == 1
\* The non-zero value of a board's explored_states counter among the
\* enumerated inputs (the other one is 0).
MaxExplored == 3

(* -------------------------- program constants -------------------------- *)
Scale == 10
Ceiling == 10000
Inf == 1000000000
LEFT == 1
RIGHT == 2
UP == 3
DOWN == 4
DistWeight10 == 25
DeadlockPenalty == 1500
TunnelPenalty == 80
BlockPenalty == 150
SimpleDeadlock == 1000
MatchingCorner == 1000
IdaDeadlock == 1000
PlacedBonus == 30
IdaTunnel == 50
IdaBlock == 100
max_steps == 100000
\* The number of passes after which temp > end_temp is false: temp starts at
\* 1000.0 and is multiplied by 0.995 at the end of every pass; in the code's
\* floats it is 0.1002... after 1837 passes and 0.0997... after 1838.
CoolingSteps == 1838

VARIABLES
    board,            \* the immutable part of the puzzle: grid, targets, obstacles, move order
    heap,             \* the Map objects alive; heap[1] is self.map
    map0,             \* history: the mutable fields of self.map at construction
    alg,              \* which solver main.py constructed: "ida_star" or "simulated_annealing"
    pc,               \* position in solve()
    limit,            \* IDAStarSolver.solve: limit
    parent,           \* IDAStarSolver.parent
    stack,            \* the activation records of _depth_first, root first
    explored_states,  \* IDAStarSolver.explored_states
    result,           \* the value solve() returned
    iterations,       \* history: outer iterations of IDAStarSolver.solve started
    applied,          \* history: apply_move calls made by IDAStarSolver
    entered,          \* history: the calls of _depth_first made in the current outer
                      \* iteration, in order: the state's identity and its f
    state,            \* SimulatedAnnealingSolver.solve: state (a reference into heap)
                      \* (self.restarts, lines 16 and 29, is read by the print calls
                      \* only and is not a variable)
    steps,            \* solve: steps (temp is start_temp * cool_factor^steps)
    moves_so_far,     \* solve: moves_so_far (a move list: see EmptyList)
    score,            \* solve: score
    best_score_this_run,
    best_sequence_this_run,
    last_best_score,
    overall_best_sequence,
    perturb_left,     \* _perturb_initial_state: iterations of its loop still to run
    candidate,        \* solve: the locals move and delta of the last annealing step
    replayed          \* history: the moves appended to moves_so_far in this restart,
                      \* replayed from the state _perturb_initial_state returned

idaVars == <<limit, parent, stack, explored_states, iterations, applied, entered>>

saVars == <<state, steps, moves_so_far, score, best_score_this_run,
            best_sequence_this_run, last_best_score, overall_best_sequence,
            perturb_left, candidate, replayed>>

vars == <<board, heap, map0, alg, pc, result, idaVars, saVars>>

(* ----------------------------- arithmetic ------------------------------ *)
Abs(n) == IF n < 0 THEN -n ELSE n

Min2(a, b) == IF a < b THEN a ELSE b

Max2(a, b) == IF a > b THEN a ELSE b

\* Float addition where a term may be float('inf') (Inf): inf plus a finite
\* number is inf, whatever the scale (heuristics.py:116, 212).
PlusInf(a, b) == IF a = Inf \/ b = Inf THEN Inf ELSE a + b

\* A float that may be float('inf'), multiplied by a positive factor.
TimesInf(k, a) == IF a = Inf THEN Inf ELSE k * a

manhattan_distance(x1, y1, x2, y2) == Abs(x1 - x2) + Abs(y1 - y2)

(* --------------------------- the board (Map) --------------------------- *)
Moves == {LEFT, RIGHT, UP, DOWN}

Delta(m) ==
    CASE m = LEFT  -> <<0, -1>>
      [] m = RIGHT -> <<0, 1>>
      [] m = UP    -> <<1, 0>>
      [] m = DOWN  -> <<-1, 0>>

Opposite(m) ==
    CASE m = LEFT  -> RIGHT
      [] m = RIGHT -> LEFT
      [] m = UP    -> DOWN
      [] m = DOWN  -> UP

Plus(p, d) == <<p[1] + d[1], p[2] + d[2]>>

Range(s) == {s[i] : i \in DOMAIN s}

TargetSet(b) == Range(b.targets)

InGrid(b, p) == p[1] >= 0 /\ p[1] < b.length /\ p[2] >= 0 /\ p[2] < b.width

Free(b, p) == InGrid(b, p) /\ p \notin b.obstacles

BoxAt(s, p) == \E i \in DOMAIN s.boxes : s.boxes[i] = p

\* A move is legal when the agent's destination is free and either holds no
\* box or holds a box whose own destination is free and holds no box.
is_valid_move(b, s, m) ==
    LET p == Plus(s.player, Delta(m))
        q == Plus(p, Delta(m))
    IN  /\ m \in Moves
        /\ Free(b, p)
        /\ BoxAt(s, p) => (Free(b, q) /\ ~BoxAt(s, q))

\* The object after apply_move(m), for a legal m (an illegal m raises).
apply_move(b, s, m) ==
    LET p == Plus(s.player, Delta(m))
        q == Plus(p, Delta(m))
    IN  [s EXCEPT !.player = p,
                  !.boxes = [i \in DOMAIN s.boxes |->
                               IF s.boxes[i] = p THEN q ELSE s.boxes[i]]]

filter_possible_moves(b, s) ==
    SelectSeq(b.order, LAMBDA m : is_valid_move(b, s, m))

is_solved(b, s) == \A i \in DOMAIN s.boxes : s.boxes[i] \in TargetSet(b)

\* str(state): the canonical identity, the agent position and the box
\* collection; the explored_states counter is not part of it.
Str(s) == <<s.player, s.boxes>>

\* The positions a canonical identity stands for, as a state.
StateOf(hash) == [player |-> hash[1], boxes |-> hash[2], explored_states |-> 0]

\* state.copy(): a new object with equal fields; returns the new heap and
\* the reference of the copy.
copy(h, r) == [heap |-> Append(h, h[r]), ref |-> Len(h) + 1]

(* ----------------------- heuristics.py: helpers ------------------------ *)
\* heuristics.py:46, the definition that is in effect (it shadows line 3).
blocks_other_boxes(s, box_pos) ==
    \E i \in DOMAIN s.boxes :
        /\ s.boxes[i] # box_pos
        /\ \/ (Abs(box_pos[1] - s.boxes[i][1]) = 1 /\ box_pos[2] = s.boxes[i][2])
           \/ (Abs(box_pos[2] - s.boxes[i][2]) = 1 /\ box_pos[1] = s.boxes[i][1])

is_tunnel(b, x, y) ==
    LET horizontal_walls == <<x, y - 1>> \in b.obstacles /\ <<x, y + 1>> \in b.obstacles
        vertical_walls == <<x - 1, y>> \in b.obstacles /\ <<x + 1, y>> \in b.obstacles
    IN  horizontal_walls /\ vertical_walls

\* The test with one blocked side being enough (or in place of and).
is_deadlock_either(b, x, y) ==
    LET horizontal_blocked == <<x - 1, y>> \in b.obstacles \/ <<x + 1, y>> \in b.obstacles
        vertical_blocked == <<x, y - 1>> \in b.obstacles \/ <<x, y + 1>> \in b.obstacles
    IN  \/ ((x = 0 \/ x = b.length - 1) /\ (y = 0 \/ y = b.width - 1))
        \/ (horizontal_blocked \/ vertical_blocked)

is_deadlock(b, x, y) ==
    LET horizontal_blocked == <<x - 1, y>> \in b.obstacles \/ <<x + 1, y>> \in b.obstacles
        vertical_blocked == <<x, y - 1>> \in b.obstacles \/ <<x, y + 1>> \in b.obstacles
    IN  \/ ((x = 0 \/ x = b.length - 1) /\ (y = 0 \/ y = b.width - 1))
        \/ (horizontal_blocked /\ vertical_blocked)

\* The filter left out: every box, placed or not.
Unplaced_all(b, s) == s.boxes

\* The boxes that are not on a target, in the order of state.boxes.values().
Unplaced(b, s) == SelectSeq(s.boxes, LAMBDA p : p \notin TargetSet(b))

\* Minimum over a non-empty sequence of positions of the distance to p.
RECURSIVE MinDist(_, _)
MinDist(ps, p) ==
    IF Len(ps) = 0 THEN Inf
    ELSE Min2(manhattan_distance(p[1], p[2], Head(ps)[1], Head(ps)[2]),
              MinDist(Tail(ps), p))

\* The first element of ts, in order, at minimum distance from p (the loop
\* of heuristics.py:166-170 keeps the first strict minimum; min() with a key
\* at heuristics.py:76 does the same).
FirstNearest(ts, p) ==
    LET d(i) == manhattan_distance(p[1], p[2], ts[i][1], ts[i][2])
        best == CHOOSE i \in DOMAIN ts :
                    /\ \A j \in DOMAIN ts : d(i) <= d(j)
                    /\ \A j \in DOMAIN ts : (j < i) => d(j) > d(i)
    IN  ts[best]

\* The pool with nothing taken out of it.
Remove_kept(ts, t) == ts

Remove(ts, t) ==
    LET k == CHOOSE i \in DOMAIN ts : ts[i] = t /\ \A j \in DOMAIN ts : j < i => ts[j] # t
    IN  [i \in 1..(Len(ts) - 1) |-> IF i < k THEN ts[i] ELSE ts[i + 1]]

(* ------------------- heuristics.py: the four heuristics ---------------- *)
\* The per-box part of target_matching_heuristic (lines 161-181), times 10:
\* boxes are the unplaced boxes left, unmatched the targets not yet matched
\* in the iteration order of the set.  The pool left by a box is bound to its
\* value (pool) before the next box is handled.
RECURSIVE TargetMatchingBoxes(_, _, _, _)
TargetMatchingBoxes(b, s, boxes, unmatched) ==
    IF Len(boxes) = 0 THEN 0
    ELSE LET box == Head(boxes)
             has == Len(unmatched) > 0
             best_target == FirstNearest(unmatched, box)
             best_distance == manhattan_distance(box[1], box[2], best_target[1], best_target[2])
             rest == IF has THEN Remove(unmatched, best_target) ELSE unmatched
         IN  (IF has THEN DistWeight10 * best_distance ELSE 0)
             + (IF is_deadlock(b, box[1], box[2]) THEN DeadlockPenalty * Scale ELSE 0)
             + (IF is_tunnel(b, box[1], box[2]) /\ box \notin TargetSet(b)
                  THEN TunnelPenalty * Scale ELSE 0)
             + (IF blocks_other_boxes(s, box) THEN BlockPenalty * Scale ELSE 0)
             + (CHOOSE v \in {TargetMatchingBoxes(b, s, Tail(boxes), pool) : pool \in {rest}} : TRUE)

\* target_matching_heuristic(state), times 10.
target_matching_heuristic(b, s) ==
    LET boxes == Unplaced(b, s)
    IN  TargetMatchingBoxes(b, s, boxes, b.set_order)
        + (IF Len(boxes) > 0 THEN Scale * MinDist(boxes, s.player) ELSE 0)
        + s.explored_states

\* The heuristic both solvers are constructed with (ida_star.py:12,
\* simulated_annealing.py:16).
heuristic(b, s) == target_matching_heuristic(b, s)

\* simple_heuristic(state), times 10 (heuristics.py:196-217).
RECURSIVE SimpleBoxes(_, _)
SimpleBoxes(b, boxes) ==
    IF Len(boxes) = 0 THEN 0
    ELSE LET box == Head(boxes)
         IN  PlusInf(IF box \in TargetSet(b) THEN 0
                     ELSE PlusInf(TimesInf(Scale, MinDist(b.targets, box)),
                                  IF is_deadlock(b, box[1], box[2])
                                    THEN SimpleDeadlock * Scale ELSE 0),
                     SimpleBoxes(b, Tail(boxes)))

simple_heuristic(b, s) == SimpleBoxes(b, s.boxes)

\* The loop of matching_heuristic (heuristics.py:75-85), times 10: min() on
\* an empty pool raises ValueError.
RECURSIVE MatchingBoxes(_, _, _)
MatchingBoxes(b, boxes, targets) ==
    IF Len(boxes) = 0 THEN [raised |-> FALSE, total |-> 0]
    ELSE IF Len(targets) = 0 THEN [raised |-> TRUE, total |-> 0]
    ELSE LET bx == Head(boxes)[1]
             by == Head(boxes)[2]
             best == FirstNearest(targets, Head(boxes))
             dist == Abs(bx - best[1]) + Abs(by - best[2])
             corner ==
                 \/ (<<bx - 1, by>> \in b.obstacles /\ <<bx, by - 1>> \in b.obstacles)
                 \/ (<<bx - 1, by>> \in b.obstacles /\ <<bx, by + 1>> \in b.obstacles)
                 \/ (<<bx + 1, by>> \in b.obstacles /\ <<bx, by - 1>> \in b.obstacles)
                 \/ (<<bx + 1, by>> \in b.obstacles /\ <<bx, by + 1>> \in b.obstacles)
             rest == MatchingBoxes(b, Tail(boxes), Remove(targets, best))
         IN  [raised |-> rest.raised,
              total |-> Scale * dist + (IF corner THEN MatchingCorner * Scale ELSE 0)
                        + rest.total]

\* matching_heuristic(state), times 10, or "ValueError" when it raises.
matching_heuristic(b, s) ==
    LET r == MatchingBoxes(b, Unplaced(b, s), b.targets)
    IN  IF r.raised THEN "ValueError" ELSE r.total

\* What the loop of matching_heuristic (heuristics.py:75-79) does with the
\* pool, box by box: the pool the box is matched against and the target it
\* gets.  On an empty pool min() raises and the loop is left.
RECURSIVE MatchingAssigned(_, _)
MatchingAssigned(boxes, targets) ==
    IF Len(boxes) = 0 THEN <<>>
    ELSE IF Len(targets) = 0
           THEN <<[box |-> Head(boxes), pool |-> targets, matched |-> FALSE,
                   target |-> Head(boxes)]>>
    ELSE LET best == FirstNearest(targets, Head(boxes))
         IN  <<[box |-> Head(boxes), pool |-> targets, matched |-> TRUE, target |-> best]>>
             \o MatchingAssigned(Tail(boxes), Remove(targets, best))

\* The same for the loop of target_matching_heuristic (heuristics.py:161-173):
\* on an empty pool best_target stays None, nothing is removed and the loop
\* goes on.
RECURSIVE TargetMatchingAssigned(_, _)
TargetMatchingAssigned(boxes, unmatched) ==
    IF Len(boxes) = 0 THEN <<>>
    ELSE IF Len(unmatched) = 0
           THEN <<[box |-> Head(boxes), pool |-> unmatched, matched |-> FALSE,
                   target |-> Head(boxes)]>>
                \o TargetMatchingAssigned(Tail(boxes), unmatched)
    ELSE LET best_target == FirstNearest(unmatched, Head(boxes))
         IN  <<[box |-> Head(boxes), pool |-> unmatched, matched |-> TRUE,
                target |-> best_target]>>
             \o TargetMatchingAssigned(Tail(boxes), Remove(unmatched, best_target))

\* The per-box loop of ida_star_heuristic (heuristics.py:103-131), times 10,
\* without the agent and spread terms.
RECURSIVE IdaBoxes(_, _, _)
IdaBoxes(b, s, boxes) ==
    IF Len(boxes) = 0 THEN 0
    ELSE LET box == Head(boxes)
         IN  PlusInf(IF box \in TargetSet(b)
                       THEN (IF ~blocks_other_boxes(s, box) THEN -(PlacedBonus * Scale) ELSE 0)
                       ELSE PlusInf(TimesInf(2 * Scale, MinDist(b.targets, box)),
                                (IF is_deadlock(b, box[1], box[2]) THEN IdaDeadlock * Scale ELSE 0)
                                + (IF is_tunnel(b, box[1], box[2]) /\ box \notin TargetSet(b)
                                     THEN IdaTunnel * Scale ELSE 0)
                                + (IF blocks_other_boxes(s, box) THEN IdaBlock * Scale ELSE 0)),
                     IdaBoxes(b, s, Tail(boxes)))

\* The largest distance between two of the positions (heuristics.py:137-141).
MaxSpread(ps) ==
    LET ds == {manhattan_distance(ps[i][1], ps[i][2], ps[j][1], ps[j][2]) :
                  i \in DOMAIN ps, j \in DOMAIN ps}
    IN  CHOOSE d \in ds \cup {0} : \A e \in ds \cup {0} : e <= d

\* ida_star_heuristic(state), times 10 (heuristics.py:91-144).
ida_star_heuristic(b, s) ==
    LET unplaced_boxes == Unplaced(b, s)
    IN  PlusInf(IdaBoxes(b, s, s.boxes),
                (IF Len(unplaced_boxes) > 0 THEN Scale * MinDist(unplaced_boxes, s.player) ELSE 0)
                + (IF Len(unplaced_boxes) >= 2 THEN 2 * Scale * MaxSpread(unplaced_boxes) ELSE 0))

(* ------------------------------ inputs --------------------------------- *)
MkBoard(len, wid, ts, set_order, obs, ord) ==
    [length |-> len, width |-> wid, targets |-> ts, set_order |-> set_order,
     obstacles |-> obs, order |-> ord]

MkState(p, bxs, e) == [player |-> p, boxes |-> bxs, explored_states |-> e]

WellFormed(b, s) ==
    /\ s.player \notin b.obstacles
    /\ \A i \in DOMAIN s.boxes : s.boxes[i] \notin b.obstacles /\ s.boxes[i] # s.player
    /\ TargetSet(b) \cap b.obstacles = {}

BaseOrder == <<LEFT, RIGHT, UP, DOWN>>

Permutations4 ==
    {<<a, b, c, d>> : a \in Moves, b \in Moves, c \in Moves, d \in Moves}

Orders == {o \in Permutations4 : Range(o) = Moves}

ExploredValues == {0, MaxExplored}

\* Two rows of GridWidth cells.
Cells == {<<x, y>> : x \in 0..1, y \in 0..(GridWidth - 1)}

\* The cells of the top row in the left half of the grid: every cell is the
\* image of one of them under the two mirror symmetries of the grid.
TopLeftCells == {c \in Cells : c[1] = 0 /\ 2 * c[2] < GridWidth}

\* Every board of two rows with one box in the top left, one target and at
\* most MaxObstacles obstacles, with the base move order and the counter at 0.
EnumInputs ==
    {in \in {<<MkBoard(2, GridWidth, <<t>>, <<t>>, o, BaseOrder), MkState(p, <<bx>>, 0)>> :
                t \in Cells, o \in {o \in SUBSET Cells : Cardinality(o) <= MaxObstacles},
                p \in Cells, bx \in TopLeftCells} :
        WellFormed(in[1], in[2])}

\* Three rows of GridWidth cells.
Cells3 == {<<x, y>> : x \in 0..2, y \in 0..(GridWidth - 1)}

\* Every board of three rows on which one push solves the puzzle: the agent
\* behind the box, the target in front of it, at most MaxObstacles obstacles
\* elsewhere, with every order of the moves and both counter values.  The
\* push is RIGHT or UP: a board pushed LEFT or DOWN is the mirror image of
\* one of these, with the mirrored order of the moves.
OnePushInputs ==
    {in \in {<<MkBoard(3, GridWidth, <<Plus(bx, Delta(m))>>, <<Plus(bx, Delta(m))>>, o, ord),
               MkState(Plus(bx, Delta(Opposite(m))), <<bx>>, e)>> :
                bx \in Cells3, m \in {RIGHT, UP},
                o \in {o \in SUBSET Cells3 : Cardinality(o) <= MaxObstacles},
                ord \in Orders, e \in ExploredValues} :
        /\ InGrid(in[1], in[1].targets[1])
        /\ InGrid(in[1], in[2].player)
        /\ WellFormed(in[1], in[2])}

\* Six boxes wedged in wall pockets (row 0: # B B # B B # B B #, with a wall
\* under every box): no box can move, the agent walks in the free cells.
PocketObstacles ==
    {<<0, 0>>, <<0, 3>>, <<0, 6>>, <<0, 9>>,
     <<1, 1>>, <<1, 2>>, <<1, 4>>, <<1, 5>>, <<1, 7>>, <<1, 8>>}

PocketBoxes == <<(<<0, 1>>), (<<0, 2>>), (<<0, 4>>), (<<0, 5>>), (<<0, 7>>), (<<0, 8>>)>>

\* heuristic = 9994 at the start: the limit climbs to the ceiling.
PocketClimb ==
    <<MkBoard(2, 13,
              <<(<<1, 6>>), (<<1, 12>>), (<<0, 12>>), (<<0, 10>>), (<<1, 10>>), (<<1, 9>>)>>,
              <<(<<1, 12>>), (<<0, 10>>), (<<0, 12>>), (<<1, 10>>), (<<1, 6>>), (<<1, 9>>)>>,
              PocketObstacles, BaseOrder),
      MkState(<<0, 12>>, PocketBoxes, 0)>>

\* heuristic = 10009 at the start: above the ceiling before any iteration.
PocketOver ==
    <<MkBoard(2, 13,
              <<(<<1, 12>>), (<<0, 12>>), (<<1, 11>>), (<<0, 11>>), (<<1, 10>>), (<<0, 10>>)>>,
              <<(<<1, 12>>), (<<0, 10>>), (<<1, 11>>), (<<0, 12>>), (<<1, 10>>), (<<0, 11>>)>>,
              PocketObstacles, BaseOrder),
      MkState(<<0, 12>>, PocketBoxes, 0)>>

\* Two boxes, two targets, solvable in eight moves.
TwoBoxes ==
    <<MkBoard(2, 4, <<(<<0, 3>>), (<<1, 3>>)>>, <<(<<0, 3>>), (<<1, 3>>)>>, {}, BaseOrder),
      MkState(<<0, 0>>, <<(<<0, 1>>), (<<1, 2>>)>>, 0)>>

\* The agent is walled in with the box beside it: no move is legal.  The box
\* is off its target in the first board and on it in the second.
WalledIn ==
    <<MkBoard(2, 3, <<(<<1, 2>>)>>, <<(<<1, 2>>)>>, {<<1, 0>>, <<0, 2>>}, BaseOrder),
      MkState(<<0, 0>>, <<(<<0, 1>>)>>, 0)>>

WalledInSolved ==
    <<MkBoard(2, 3, <<(<<0, 1>>)>>, <<(<<0, 1>>)>>, {<<1, 0>>, <<0, 2>>}, BaseOrder),
      MkState(<<0, 0>>, <<(<<0, 1>>)>>, 0)>>

ScenarioInputs == {PocketClimb, PocketOver, TwoBoxes, WalledIn, WalledInSolved}

\* The solved boards among the enumerated ones, with the counter at
\* MaxExplored.
SolvedInputs ==
    {<<in[1], [in[2] EXCEPT !.explored_states = MaxExplored]>> :
        in \in {in \in EnumInputs : is_solved(in[1], in[2])}}

InputsIDA == EnumInputs \cup SolvedInputs \cup OnePushInputs \cup ScenarioInputs

\* A push that solves the board is legal in s.
OnePush(b, s) ==
    /\ ~is_solved(b, s)
    /\ \E m \in Moves : is_valid_move(b, s, m) /\ is_solved(b, apply_move(b, s, m))

\* The states reachable from the states of frontier by legal moves.
RECURSIVE Reach(_, _, _)
Reach(b, seen, frontier) ==
    IF frontier = {} THEN seen
    ELSE LET nxt == UNION {{apply_move(b, s, m) : m \in {m \in Moves : is_valid_move(b, s, m)}} :
                             s \in frontier} \ seen
         IN  Reach(b, seen \cup nxt, nxt)

\* A goal state is reachable from s.
Solvable(b, s) == \E t \in Reach(b, {s}, {s}) : is_solved(b, t)

(* ------------------------------ IDA* ----------------------------------- *)
EmptyMap == [x \in {} |-> <<>>]

Frame(ref, g) ==
    [ref |-> ref, g |-> g, at |-> "enter", moves |-> <<>>, min_cost |-> Inf]

\* _reconstruct_path (ida_star.py:75-86): the moves from the initial state
\* to current, last move first, following the parent map.
RECURSIVE PathBack(_, _, _)
PathBack(par, current_hash, initial_hash) ==
    IF current_hash = initial_hash THEN <<>>
    ELSE <<par[current_hash][2]>> \o PathBack(par, par[current_hash][1], initial_hash)

Reverse(s) == [i \in 1..Len(s) |-> s[Len(s) + 1 - i]]

\* The walk stopped one step early: the move out of the initial state is
\* left out.
reconstruct_path_short(par, s, initial) ==
    LET path == Reverse(PathBack(par, Str(s), Str(initial)))
    IN  IF Len(path) = 0 THEN path ELSE Tail(path)

\* The path as the walk collects it, last move first.
reconstruct_path_unreversed(par, s, initial) == PathBack(par, Str(s), Str(initial))

reconstruct_path(par, s, initial) == Reverse(PathBack(par, Str(s), Str(initial)))

\* The objects no frame refers to are dropped from the end of the heap.
Live(h, st) ==
    LET top == IF Len(st) = 0 THEN 1 ELSE Max2(1, st[Len(st)].ref)
    IN  SubSeq(h, 1, top)

\* solve(), lines 22-23: limit = heuristic(initial_state).
IDA_Start ==
    /\ alg = "ida_star" /\ pc = "start"
    /\ limit' = heuristic(board, heap[1])
    /\ pc' = "while"
    /\ UNCHANGED <<board, heap, map0, alg, parent, stack, explored_states,
                   result, iterations, applied, entered, saVars>>

\* The loop without its ceiling (while True).
IDA_Iterate_unbounded ==
    /\ alg = "ida_star" /\ pc = "while"
    /\ parent' = EmptyMap
    /\ stack' = <<Frame(1, 0)>>
    /\ iterations' = iterations + 1
    /\ entered' = <<>>
    /\ pc' = "dfs"
    /\ UNCHANGED <<board, heap, map0, alg, limit, explored_states, result, applied, saVars>>

\* solve(), lines 25-27: another iteration; the root call gets self.map
\* itself (initial_state = self.map), not a copy.
IDA_Iterate ==
    /\ alg = "ida_star" /\ pc = "while"
    /\ limit < Ceiling * Scale
    /\ parent' = EmptyMap
    /\ stack' = <<Frame(1, 0)>>
    /\ iterations' = iterations + 1
    /\ entered' = <<>>
    /\ pc' = "dfs"
    /\ UNCHANGED <<board, heap, map0, alg, limit, explored_states, result, applied, saVars>>

\* solve(), lines 25 and 36: the loop ends at the ceiling.
IDA_Ceiling ==
    /\ alg = "ida_star" /\ pc = "while"
    /\ ~(limit < Ceiling * Scale)
    /\ result' = <<>>
    /\ pc' = "done"
    /\ UNCHANGED <<board, heap, map0, alg, limit, parent, stack, explored_states,
                   iterations, applied, entered, saVars>>

\* A call of _depth_first returns the number r (not a list) to its caller:
\* the caller's loop keeps the minimum (lines 70-71); the root's caller is
\* solve() (lines 31-34).
ReturnCost(r) ==
    LET rest == SubSeq(stack, 1, Len(stack) - 1)
    IN  /\ heap' = Live(heap, rest)
        /\ IF Len(rest) = 0
             THEN /\ stack' = rest
                  /\ IF r = Inf
                       THEN result' = <<>> /\ pc' = "done" /\ limit' = limit
                       ELSE result' = result /\ pc' = "while" /\ limit' = r
             ELSE /\ stack' = [rest EXCEPT ![Len(rest)].min_cost =
                                   IF r < @ THEN r ELSE @]
                  /\ UNCHANGED <<result, pc, limit>>

\* A call of _depth_first returns a list: every caller returns it at once
\* (lines 68-69) and so does solve() (lines 29-30).
ReturnPath(path) ==
    /\ heap' = Live(heap, <<>>)
    /\ stack' = <<>>
    /\ result' = path
    /\ pc' = "done"
    /\ limit' = limit

\* _depth_first pruning at f >= limit.
DepthFirst_Enter_prune_at_limit ==
    /\ alg = "ida_star" /\ pc = "dfs"
    /\ Len(stack) > 0 /\ stack[Len(stack)].at = "enter"
    /\ LET fr == stack[Len(stack)]
           node == heap[fr.ref]
           f == fr.g * Scale + heuristic(board, node)
       IN  /\ explored_states' = explored_states + 1
           /\ entered' = Append(entered, [hash |-> Str(node), f |-> f])
           /\ IF f >= limit
                THEN ReturnCost(f)
                ELSE IF is_solved(board, node)
                       THEN ReturnPath(reconstruct_path(parent, node, heap[1]))
                       ELSE /\ stack' = [stack EXCEPT ![Len(stack)] =
                                  [fr EXCEPT !.at = "loop",
                                             !.moves = filter_possible_moves(board, node)]]
                            /\ UNCHANGED <<heap, result, pc, limit>>
    /\ UNCHANGED <<board, map0, alg, parent, iterations, applied, saVars>>

\* _depth_first with the goal test left out for the root call.
DepthFirst_Enter_root_untested ==
    /\ alg = "ida_star" /\ pc = "dfs"
    /\ Len(stack) > 0 /\ stack[Len(stack)].at = "enter"
    /\ LET fr == stack[Len(stack)]
           node == heap[fr.ref]
           f == fr.g * Scale + heuristic(board, node)
       IN  /\ explored_states' = explored_states + 1
           /\ entered' = Append(entered, [hash |-> Str(node), f |-> f])
           /\ IF f > limit
                THEN ReturnCost(f)
                ELSE IF is_solved(board, node) /\ fr.g > 0
                       THEN ReturnPath(reconstruct_path(parent, node, heap[1]))
                       ELSE /\ stack' = [stack EXCEPT ![Len(stack)] =
                                  [fr EXCEPT !.at = "loop",
                                             !.moves = filter_possible_moves(board, node)]]
                            /\ UNCHANGED <<heap, result, pc, limit>>
    /\ UNCHANGED <<board, map0, alg, parent, iterations, applied, saVars>>

\* _depth_first with a pruned call returning infinity in place of its f.
DepthFirst_Enter_prune_inf ==
    /\ alg = "ida_star" /\ pc = "dfs"
    /\ Len(stack) > 0 /\ stack[Len(stack)].at = "enter"
    /\ LET fr == stack[Len(stack)]
           node == heap[fr.ref]
           f == fr.g * Scale + heuristic(board, node)
       IN  /\ explored_states' = explored_states + 1
           /\ entered' = Append(entered, [hash |-> Str(node), f |-> f])
           /\ IF f > limit
                THEN ReturnCost(Inf)
                ELSE IF is_solved(board, node)
                       THEN ReturnPath(reconstruct_path(parent, node, heap[1]))
                       ELSE /\ stack' = [stack EXCEPT ![Len(stack)] =
                                  [fr EXCEPT !.at = "loop",
                                             !.moves = filter_possible_moves(board, node)]]
                            /\ UNCHANGED <<heap, result, pc, limit>>
    /\ UNCHANGED <<board, map0, alg, parent, iterations, applied, saVars>>

\* _depth_first, lines 45-55: count the call, prune, test the goal, or
\* start the loop over the legal moves.
DepthFirst_Enter ==
    /\ alg = "ida_star" /\ pc = "dfs"
    /\ Len(stack) > 0 /\ stack[Len(stack)].at = "enter"
    /\ LET fr == stack[Len(stack)]
           node == heap[fr.ref]
           f == fr.g * Scale + heuristic(board, node)
       IN  /\ explored_states' = explored_states + 1
           /\ entered' = Append(entered, [hash |-> Str(node), f |-> f])
           /\ IF f > limit
                THEN ReturnCost(f)
                ELSE IF is_solved(board, node)
                       THEN ReturnPath(reconstruct_path(parent, node, heap[1]))
                       ELSE /\ stack' = [stack EXCEPT ![Len(stack)] =
                                  [fr EXCEPT !.at = "loop",
                                             !.moves = filter_possible_moves(board, node)]]
                            /\ UNCHANGED <<heap, result, pc, limit>>
    /\ UNCHANGED <<board, map0, alg, parent, iterations, applied, saVars>>

\* The loop with next_state = state in place of state.copy(): the move is
\* applied to the object the frame was called with.
DepthFirst_Move_in_place ==
    /\ alg = "ida_star" /\ pc = "dfs"
    /\ Len(stack) > 0 /\ stack[Len(stack)].at = "loop"
    /\ Len(stack[Len(stack)].moves) > 0
    /\ LET fr == stack[Len(stack)]
           move == Head(fr.moves)
           state_hash == Str(heap[fr.ref])
           h2 == [heap EXCEPT ![fr.ref] = apply_move(board, heap[fr.ref], move)]
           next_hash == Str(h2[fr.ref])
           popped == [stack EXCEPT ![Len(stack)].moves = Tail(fr.moves)]
       IN  /\ applied' = applied + 1
           /\ heap' = h2
           /\ IF next_hash \in DOMAIN parent
                THEN /\ stack' = popped
                     /\ parent' = parent
                ELSE /\ parent' = [x \in DOMAIN parent \cup {next_hash} |->
                                     IF x = next_hash THEN <<state_hash, move>>
                                     ELSE parent[x]]
                     /\ stack' = Append(popped, Frame(fr.ref, fr.g + 1))
    /\ UNCHANGED <<board, map0, alg, pc, limit, explored_states, result, iterations,
                   entered, saVars>>

\* The loop with the entry written before the membership test: a successor
\* met again gets the pair of its latest discovery.
DepthFirst_Move_overwrite ==
    /\ alg = "ida_star" /\ pc = "dfs"
    /\ Len(stack) > 0 /\ stack[Len(stack)].at = "loop"
    /\ Len(stack[Len(stack)].moves) > 0
    /\ LET fr == stack[Len(stack)]
           move == Head(fr.moves)
           state_hash == Str(heap[fr.ref])
           c == copy(heap, fr.ref)
           h2 == [c.heap EXCEPT ![c.ref] = apply_move(board, c.heap[c.ref], move)]
           next_hash == Str(h2[c.ref])
           popped == [stack EXCEPT ![Len(stack)].moves = Tail(fr.moves)]
       IN  /\ applied' = applied + 1
           /\ parent' = [x \in DOMAIN parent \cup {next_hash} |->
                           IF x = next_hash THEN <<state_hash, move>> ELSE parent[x]]
           /\ IF next_hash \in DOMAIN parent
                THEN /\ stack' = popped
                     /\ heap' = Live(h2, popped)
                ELSE /\ stack' = Append(popped, Frame(c.ref, fr.g + 1))
                     /\ heap' = h2
    /\ UNCHANGED <<board, map0, alg, pc, limit, explored_states, result, iterations,
                   entered, saVars>>

\* _depth_first, lines 57-66: the next move of the loop; the move is applied
\* to a copy, a successor already in the parent map is skipped, a new one is
\* recorded and entered.
DepthFirst_Move ==
    /\ alg = "ida_star" /\ pc = "dfs"
    /\ Len(stack) > 0 /\ stack[Len(stack)].at = "loop"
    /\ Len(stack[Len(stack)].moves) > 0
    /\ LET fr == stack[Len(stack)]
           move == Head(fr.moves)
           state_hash == Str(heap[fr.ref])
           c == copy(heap, fr.ref)
           h2 == [c.heap EXCEPT ![c.ref] = apply_move(board, c.heap[c.ref], move)]
           next_hash == Str(h2[c.ref])
           popped == [stack EXCEPT ![Len(stack)].moves = Tail(fr.moves)]
       IN  /\ applied' = applied + 1
           /\ IF next_hash \in DOMAIN parent
                THEN /\ stack' = popped
                     /\ heap' = Live(h2, popped)
                     /\ parent' = parent
                ELSE /\ parent' = [x \in DOMAIN parent \cup {next_hash} |->
                                     IF x = next_hash THEN <<state_hash, move>>
                                     ELSE parent[x]]
                     /\ stack' = Append(popped, Frame(c.ref, fr.g + 1))
                     /\ heap' = h2
    /\ UNCHANGED <<board, map0, alg, pc, limit, explored_states, result, iterations,
                   entered, saVars>>

\* _depth_first, line 73: the loop is over, return min_cost.
DepthFirst_Exhausted ==
    /\ alg = "ida_star" /\ pc = "dfs"
    /\ Len(stack) > 0 /\ stack[Len(stack)].at = "loop"
    /\ Len(stack[Len(stack)].moves) = 0
    /\ ReturnCost(stack[Len(stack)].min_cost)
    /\ UNCHANGED <<board, map0, alg, parent, explored_states, iterations, applied,
                   entered, saVars>>

\* A move list of solve() (moves_so_far, best_sequence_this_run,
\* overall_best_sequence, the list returned) is held as what solve() does
\* with it: empty is its truth value (lines 81 and 85), and ok and to
\* are its replay by _validate_solution (lines 106-112) on a copy of
\* self.map: ok is FALSE when apply_move has raised ValueError, and to is
\* temp_map, the state the replay has reached.  After a ValueError the
\* replay is over and temp_map is not read again: to is left at self.map.
EmptyList(h) == [empty |-> TRUE, ok |-> TRUE, to |-> h[1]]

\* One more move of a replay that started from the state from: apply_move
\* on the state reached, or the ValueError of an illegal move.
ReplayStep(b, from, r, move) ==
    IF r.ok /\ is_valid_move(b, r.to, move)
      THEN [r EXCEPT !.to = apply_move(b, r.to, move)]
      ELSE [r EXCEPT !.ok = FALSE, !.to = from]

\* moves.append(move) and moves + [move].
ListAppend(b, h, moves, move) == [ReplayStep(b, h[1], moves, move) EXCEPT !.empty = FALSE]

\* The solver's fields after __init__ and the locals of solve() before they
\* are first assigned.
Fresh ==
    /\ limit = 0
    /\ parent = EmptyMap
    /\ stack = <<>>
    /\ explored_states = 0
    /\ result = <<>>
    /\ iterations = 0
    /\ applied = 0
    /\ entered = <<>>
    /\ state = 1
    /\ steps = 0
    /\ moves_so_far = EmptyList(heap)
    /\ score = 0
    /\ best_score_this_run = 0
    /\ best_sequence_this_run = EmptyList(heap)
    /\ last_best_score = Inf
    /\ overall_best_sequence = EmptyList(heap)
    /\ perturb_left = 0
    /\ candidate = [move |-> 0, delta |-> 0]
    /\ replayed = [ok |-> TRUE, to |-> heap[1]]

InitIDA ==
    /\ \E in \in InputsIDA :
          /\ board = in[1]
          /\ heap = <<in[2]>>
          /\ map0 = in[2]
    /\ alg = "ida_star"
    /\ pc = "start"
    /\ Fresh

NextIDA ==
    \/ IDA_Start
    \/ IDA_Iterate
    \/ IDA_Ceiling
    \/ DepthFirst_Enter
    \/ DepthFirst_Move
    \/ DepthFirst_Exhausted

SpecIDA == InitIDA /\ [][NextIDA]_vars

\* solve() runs to its end: the interpreter keeps executing the next
\* statement.
SpecIDAFair == InitIDA /\ [][NextIDA]_vars /\ WF_vars(NextIDA)

(* ------------------------ simulated annealing -------------------------- *)
\* Replaying moves from s with apply_move: ok is FALSE when a move is
\* illegal (apply_move raises ValueError), and state is the state reached.
RECURSIVE Replay(_, _, _)
Replay(b, s, moves) ==
    IF Len(moves) = 0 THEN [ok |-> TRUE, state |-> s]
    ELSE IF ~is_valid_move(b, s, Head(moves)) THEN [ok |-> FALSE, state |-> s]
    ELSE Replay(b, apply_move(b, s, Head(moves)), Tail(moves))

\* _validate_solution (simulated_annealing.py:102-112): replay on a copy of
\* self.map; an illegal move makes the sequence invalid.
validate_solution(b, moves) == moves.ok /\ is_solved(b, moves.to)

\* The objects alive in solve(): self.map and the one state refers to.
Keep(h, r) == IF r = 1 THEN <<h[1]>> ELSE <<h[1], h[r]>>

KeptRef(r) == IF r = 1 THEN 1 ELSE 2

\* int(x) for a non-negative score (x is the score times 10).
IntOf(x10) == x10 \div Scale

\* The loop condition of line 46, temp > end_temp and steps < max_steps:
\* temp is start_temp * cool_factor^steps, and it is above end_temp for the
\* first CoolingSteps passes.
Cooling == steps < CoolingSteps /\ steps < max_steps

\* AcceptLimit[k + 1] is the largest delta, times 10, for which
\* math.exp(-delta / temp) of line 65 is above 0.0 in pass k of the loop
\* (temp is 1000.0 multiplied k times by 0.995, in the code's floats): for a
\* larger delta the exponential underflows to 0.0.
AcceptLimit ==
    <<
      7451332, 7414075, 7377005, 7340120, 7303419, 7266902, 7230567, 7194415, 7158443, 7122650,
      7087037, 7051602, 7016344, 6981262, 6946356, 6911624, 6877066, 6842681, 6808467, 6774425,
      6740553, 6706850, 6673316, 6639949, 6606749, 6573716, 6540847, 6508143, 6475602, 6443224,
      6411008, 6378953, 6347058, 6315323, 6283746, 6252327, 6221066, 6189961, 6159011, 6128216,
      6097575, 6067087, 6036751, 6006567, 5976535, 5946652, 5916919, 5887334, 5857897, 5828608,
      5799465, 5770468, 5741615, 5712907, 5684343, 5655921, 5627641, 5599503, 5571506, 5543648,
      5515930, 5488350, 5460908, 5433604, 5406436, 5379404, 5352507, 5325744, 5299115, 5272620,
      5246257, 5220025, 5193925, 5167956, 5142116, 5116405, 5090823, 5065369, 5040042, 5014842,
      4989768, 4964819, 4939995, 4915295, 4890718, 4866265, 4841934, 4817724, 4793635, 4769667,
      4745819, 4722090, 4698479, 4674987, 4651612, 4628354, 4605212, 4582186, 4559275, 4536479,
      4513796, 4491227, 4468771, 4446427, 4424195, 4402074, 4380064, 4358163, 4336373, 4314691,
      4293117, 4271652, 4250293, 4229042, 4207897, 4186857, 4165923, 4145093, 4124368, 4103746,
      4083227, 4062811, 4042497, 4022285, 4002173, 3982162, 3962252, 3942440, 3922728, 3903114,
      3883599, 3864181, 3844860, 3825636, 3806507, 3787475, 3768538, 3749695, 3730946, 3712292,
      3693730, 3675262, 3656885, 3638601, 3620408, 3602306, 3584294, 3566373, 3548541, 3530798,
      3513144, 3495578, 3478101, 3460710, 3443407, 3426189, 3409059, 3392013, 3375053, 3358178,
      3341387, 3324680, 3308057, 3291516, 3275059, 3258684, 3242390, 3226178, 3210047, 3193997,
      3178027, 3162137, 3146326, 3130595, 3114942, 3099367, 3083870, 3068451, 3053108, 3037843,
      3022654, 3007540, 2992503, 2977540, 2962652, 2947839, 2933100, 2918434, 2903842, 2889323,
      2874876, 2860502, 2846200, 2831969, 2817809, 2803720, 2789701, 2775753, 2761874, 2748064,
      2734324, 2720653, 2707049, 2693514, 2680046, 2666646, 2653313, 2640046, 2626846, 2613712,
      2600643, 2587640, 2574702, 2561828, 2549019, 2536274, 2523593, 2510975, 2498420, 2485928,
      2473498, 2461131, 2448825, 2436581, 2424398, 2412276, 2400215, 2388214, 2376273, 2364391,
      2352569, 2340806, 2329102, 2317457, 2305870, 2294340, 2282868, 2271454, 2260097, 2248796,
      2237552, 2226365, 2215233, 2204157, 2193136, 2182170, 2171259, 2160403, 2149601, 2138853,
      2128159, 2117518, 2106930, 2096396, 2085914, 2075484, 2065107, 2054781, 2044507, 2034285,
      2024113, 2013993, 2003923, 1993903, 1983934, 1974014, 1964144, 1954323, 1944552, 1934829,
      1925155, 1915529, 1905951, 1896421, 1886939, 1877505, 1868117, 1858777, 1849483, 1840235,
      1831034, 1821879, 1812769, 1803706, 1794687, 1785714, 1776785, 1767901, 1759062, 1750266,
      1741515, 1732807, 1724143, 1715523, 1706945, 1698410, 1689918, 1681469, 1673061, 1664696,
      1656373, 1648091, 1639850, 1631651, 1623493, 1615375, 1607298, 1599262, 1591266, 1583309,
      1575393, 1567516, 1559678, 1551880, 1544120, 1536400, 1528718, 1521074, 1513469, 1505901,
      1498372, 1490880, 1483426, 1476009, 1468628, 1461285, 1453979, 1446709, 1439475, 1432278,
      1425117, 1417991, 1410901, 1403847, 1396827, 1389843, 1382894, 1375980, 1369100, 1362254,
      1355443, 1348666, 1341922, 1335213, 1328537, 1321894, 1315284, 1308708, 1302165, 1295654,
      1289175, 1282730, 1276316, 1269934, 1263585, 1257267, 1250980, 1244725, 1238502, 1232309,
      1226148, 1220017, 1213917, 1207847, 1201808, 1195799, 1189820, 1183871, 1177952, 1172062,
      1166202, 1160371, 1154569, 1148796, 1143052, 1137337, 1131650, 1125992, 1120362, 1114760,
      1109186, 1103640, 1098122, 1092631, 1087168, 1081732, 1076324, 1070942, 1065587, 1060259,
      1054958, 1049683, 1044435, 1039213, 1034017, 1028847, 1023702, 1018584, 1013491, 1008423,
      1003381, 998364, 993373, 988406, 983464, 978546, 973654, 968785, 963941, 959122,
      954326, 949554, 944807, 940083, 935382, 930705, 926052, 921422, 916814, 912230,
      907669, 903131, 898615, 894122, 889652, 885203, 880777, 876373, 871991, 867632,
      863293, 858977, 854682, 850409, 846157, 841926, 837716, 833528, 829360, 825213,
      821087, 816982, 812897, 808832, 804788, 800764, 796760, 792776, 788813, 784869,
      780944, 777039, 773154, 769288, 765442, 761615, 757807, 754018, 750248, 746496,
      742764, 739050, 735355, 731678, 728020, 724380, 720758, 717154, 713568, 710000,
      706450, 702918, 699403, 695906, 692427, 688965, 685520, 682092, 678682, 675288,
      671912, 668552, 665210, 661884, 658574, 655281, 652005, 648745, 645501, 642274,
      639062, 635867, 632688, 629524, 626377, 623245, 620128, 617028, 613943, 610873,
      607819, 604779, 601756, 598747, 595753, 592774, 589810, 586861, 583927, 581007,
      578102, 575212, 572336, 569474, 566627, 563794, 560975, 558170, 555379, 552602,
      549839, 547090, 544354, 541633, 538924, 536230, 533549, 530881, 528226, 525585,
      522957, 520343, 517741, 515152, 512576, 510014, 507463, 504926, 502402, 499889,
      497390, 494903, 492429, 489966, 487517, 485079, 482654, 480240, 477839, 475450,
      473073, 470707, 468354, 466012, 463682, 461364, 459057, 456761, 454478, 452205,
      449944, 447694, 445456, 443229, 441013, 438808, 436613, 434430, 432258, 430097,
      427946, 425807, 423678, 421559, 419452, 417354, 415267, 413191, 411125, 409070,
      407024, 404989, 402964, 400949, 398945, 396950, 394965, 392990, 391025, 389070,
      387125, 385189, 383263, 381347, 379440, 377543, 375655, 373777, 371908, 370049,
      368198, 366357, 364526, 362703, 360889, 359085, 357289, 355503, 353726, 351957,
      350197, 348446, 346704, 344970, 343246, 341529, 339822, 338123, 336432, 334750,
      333076, 331411, 329754, 328105, 326464, 324832, 323208, 321592, 319984, 318384,
      316792, 315208, 313632, 312064, 310503, 308951, 307406, 305869, 304340, 302818,
      301304, 299797, 298298, 296807, 295323, 293846, 292377, 290915, 289461, 288013,
      286573, 285140, 283715, 282296, 280885, 279480, 278083, 276692, 275309, 273932,
      272563, 271200, 269844, 268495, 267152, 265816, 264487, 263165, 261849, 260540,
      259237, 257941, 256651, 255368, 254091, 252821, 251557, 250299, 249047, 247802,
      246563, 245330, 244104, 242883, 241669, 240460, 239258, 238062, 236871, 235687,
      234509, 233336, 232169, 231008, 229853, 228704, 227561, 226423, 225291, 224164,
      223043, 221928, 220819, 219714, 218616, 217523, 216435, 215353, 214276, 213205,
      212139, 211078, 210023, 208973, 207928, 206888, 205854, 204824, 203800, 202781,
      201767, 200759, 199755, 198756, 197762, 196773, 195790, 194811, 193837, 192867,
      191903, 190943, 189989, 189039, 188094, 187153, 186217, 185286, 184360, 183438,
      182521, 181608, 180700, 179797, 178898, 178003, 177113, 176228, 175346, 174470,
      173597, 172729, 171866, 171006, 170151, 169301, 168454, 167612, 166774, 165940,
      165110, 164285, 163463, 162646, 161833, 161024, 160218, 159417, 158620, 157827,
      157038, 156253, 155472, 154694, 153921, 153151, 152385, 151623, 150865, 150111,
      149360, 148614, 147871, 147131, 146396, 145664, 144935, 144211, 143489, 142772,
      142058, 141348, 140641, 139938, 139238, 138542, 137849, 137160, 136474, 135792,
      135113, 134437, 133765, 133096, 132431, 131769, 131110, 130454, 129802, 129153,
      128507, 127865, 127225, 126589, 125956, 125327, 124700, 124076, 123456, 122839,
      122225, 121613, 121005, 120400, 119798, 119199, 118603, 118010, 117420, 116833,
      116249, 115668, 115089, 114514, 113941, 113372, 112805, 112241, 111680, 111121,
      110566, 110013, 109463, 108915, 108371, 107829, 107290, 106753, 106220, 105688,
      105160, 104634, 104111, 103590, 103072, 102557, 102044, 101534, 101026, 100521,
      100019, 99519, 99021, 98526, 98033, 97543, 97055, 96570, 96087, 95607,
      95129, 94653, 94180, 93709, 93240, 92774, 92310, 91849, 91390, 90933,
      90478, 90026, 89575, 89128, 88682, 88238, 87797, 87358, 86921, 86487,
      86054, 85624, 85196, 84770, 84346, 83924, 83505, 83087, 82672, 82259,
      81847, 81438, 81031, 80626, 80223, 79821, 79422, 79025, 78630, 78237,
      77846, 77456, 77069, 76684, 76300, 75919, 75539, 75162, 74786, 74412,
      74040, 73670, 73301, 72935, 72570, 72207, 71846, 71487, 71130, 70774,
      70420, 70068, 69718, 69369, 69022, 68677, 68334, 67992, 67652, 67314,
      66977, 66642, 66309, 65977, 65648, 65319, 64993, 64668, 64344, 64023,
      63703, 63384, 63067, 62752, 62438, 62126, 61815, 61506, 61199, 60893,
      60588, 60285, 59984, 59684, 59385, 59089, 58793, 58499, 58207, 57916,
      57626, 57338, 57051, 56766, 56482, 56200, 55919, 55639, 55361, 55084,
      54809, 54535, 54262, 53991, 53721, 53452, 53185, 52919, 52654, 52391,
      52129, 51868, 51609, 51351, 51094, 50839, 50585, 50332, 50080, 49830,
      49580, 49333, 49086, 48840, 48596, 48353, 48111, 47871, 47632, 47393,
      47156, 46921, 46686, 46453, 46220, 45989, 45759, 45530, 45303, 45076,
      44851, 44627, 44404, 44182, 43961, 43741, 43522, 43304, 43088, 42873,
      42658, 42445, 42233, 42021, 41811, 41602, 41394, 41187, 40981, 40776,
      40573, 40370, 40168, 39967, 39767, 39568, 39370, 39174, 38978, 38783,
      38589, 38396, 38204, 38013, 37823, 37634, 37446, 37258, 37072, 36887,
      36702, 36519, 36336, 36155, 35974, 35794, 35615, 35437, 35260, 35083,
      34908, 34733, 34560, 34387, 34215, 34044, 33874, 33704, 33536, 33368,
      33201, 33035, 32870, 32706, 32542, 32379, 32218, 32056, 31896, 31737,
      31578, 31420, 31263, 31107, 30951, 30796, 30642, 30489, 30337, 30185,
      30034, 29884, 29735, 29586, 29438, 29291, 29144, 28999, 28854, 28709,
      28566, 28423, 28281, 28139, 27999, 27859, 27719, 27581, 27443, 27306,
      27169, 27033, 26898, 26764, 26630, 26497, 26364, 26232, 26101, 25971,
      25841, 25712, 25583, 25455, 25328, 25201, 25075, 24950, 24825, 24701,
      24577, 24455, 24332, 24211, 24090, 23969, 23849, 23730, 23611, 23493,
      23376, 23259, 23143, 23027, 22912, 22797, 22683, 22570, 22457, 22345,
      22233, 22122, 22011, 21901, 21792, 21683, 21574, 21466, 21359, 21252,
      21146, 21040, 20935, 20830, 20726, 20623, 20519, 20417, 20315, 20213,
      20112, 20012, 19912, 19812, 19713, 19614, 19516, 19419, 19322, 19225,
      19129, 19033, 18938, 18843, 18749, 18655, 18562, 18469, 18377, 18285,
      18194, 18103, 18012, 17922, 17832, 17743, 17655, 17566, 17478, 17391,
      17304, 17218, 17131, 17046, 16961, 16876, 16791, 16707, 16624, 16541,
      16458, 16376, 16294, 16212, 16131, 16051, 15970, 15891, 15811, 15732,
      15653, 15575, 15497, 15420, 15343, 15266, 15190, 15114, 15038, 14963,
      14888, 14814, 14740, 14666, 14593, 14520, 14447, 14375, 14303, 14231,
      14160, 14089, 14019, 13949, 13879, 13810, 13741, 13672, 13604, 13536,
      13468, 13401, 13334, 13267, 13201, 13135, 13069, 13004, 12938, 12874,
      12809, 12745, 12682, 12618, 12555, 12492, 12430, 12368, 12306, 12244,
      12183, 12122, 12062, 12001, 11941, 11882, 11822, 11763, 11704, 11646,
      11587, 11530, 11472, 11415, 11357, 11301, 11244, 11188, 11132, 11076,
      11021, 10966, 10911, 10856, 10802, 10748, 10694, 10641, 10588, 10535,
      10482, 10430, 10378, 10326, 10274, 10223, 10172, 10121, 10070, 10020,
      9970, 9920, 9870, 9821, 9772, 9723, 9674, 9626, 9578, 9530,
      9482, 9435, 9388, 9341, 9294, 9247, 9201, 9155, 9109, 9064,
      9019, 8973, 8929, 8884, 8840, 8795, 8751, 8708, 8664, 8621,
      8578, 8535, 8492, 8450, 8407, 8365, 8323, 8282, 8240, 8199,
      8158, 8117, 8077, 8036, 7996, 7956, 7917, 7877, 7838, 7798,
      7759, 7721, 7682, 7644, 7605, 7567, 7529, 7492, 7454, 7417,
      7380, 7343, 7306, 7270, 7233, 7197, 7161, 7126, 7090, 7054,
      7019, 6984, 6949, 6914, 6880, 6845, 6811, 6777, 6743, 6710,
      6676, 6643, 6609, 6576, 6543, 6511, 6478, 6446, 6414, 6381,
      6350, 6318, 6286, 6255, 6224, 6192, 6161, 6131, 6100, 6069,
      6039, 6009, 5979, 5949, 5919, 5890, 5860, 5831, 5802, 5773,
      5744, 5715, 5687, 5658, 5630, 5602, 5574, 5546, 5518, 5490,
      5463, 5436, 5408, 5381, 5355, 5328, 5301, 5275, 5248, 5222,
      5196, 5170, 5144, 5118, 5093, 5067, 5042, 5017, 4992, 4967,
      4942, 4917, 4893, 4868, 4844, 4820, 4795, 4771, 4748, 4724,
      4700, 4677, 4653, 4630, 4607, 4584, 4561, 4538, 4515, 4493,
      4470, 4448, 4426, 4404, 4382, 4360, 4338, 4316, 4295, 4273,
      4252, 4231, 4209, 4188, 4167, 4147, 4126, 4105, 4085, 4064,
      4044, 4024, 4004, 3984, 3964, 3944, 3924, 3904, 3885, 3866,
      3846, 3827, 3808, 3789, 3770, 3751, 3732, 3714, 3695, 3676,
      3658, 3640, 3622, 3604, 3585, 3568, 3550, 3532, 3514, 3497,
      3479, 3462, 3445, 3427, 3410, 3393, 3376, 3359, 3342, 3326,
      3309, 3293, 3276, 3260, 3243, 3227, 3211, 3195, 3179, 3163,
      3147, 3132, 3116, 3100, 3085, 3069, 3054, 3039, 3024, 3008,
      2993, 2978, 2964, 2949, 2934, 2919, 2905, 2890, 2876, 2861,
      2847, 2833, 2819, 2805, 2791, 2777, 2763, 2749, 2735, 2721,
      2708, 2694, 2681, 2667, 2654, 2641, 2628, 2614, 2601, 2588,
      2575, 2563, 2550, 2537, 2524, 2512, 2499, 2487, 2474, 2462,
      2449, 2437, 2425, 2413, 2401, 2389, 2377, 2365, 2353, 2341,
      2330, 2318, 2306, 2295, 2283, 2272, 2261, 2249, 2238, 2227,
      2216, 2205, 2194, 2183, 2172, 2161, 2150, 2139, 2129, 2118,
      2107, 2097, 2086, 2076, 2066, 2055, 2045, 2035, 2025, 2014,
      2004, 1994, 1984, 1974, 1965, 1955, 1945, 1935, 1926, 1916,
      1906, 1897, 1887, 1878, 1869, 1859, 1850, 1841, 1831, 1822,
      1813, 1804, 1795, 1786, 1777, 1768, 1759, 1751, 1742, 1733,
      1724, 1716, 1707, 1699, 1690, 1682, 1673, 1665, 1657, 1648,
      1640, 1632, 1624, 1616, 1608, 1600, 1592, 1584, 1576, 1568,
      1560, 1552, 1544, 1537, 1529, 1521, 1514, 1506, 1499, 1491,
      1484, 1476, 1469, 1461, 1454, 1447, 1440, 1432, 1425, 1418,
      1411, 1404, 1397, 1390, 1383, 1376, 1369, 1362, 1356, 1349,
      1342, 1335, 1329, 1322, 1315, 1309, 1302, 1296, 1289, 1283,
      1276, 1270, 1264, 1257, 1251, 1245, 1239, 1232, 1226, 1220,
      1214, 1208, 1202, 1196, 1190, 1184, 1178, 1172, 1166, 1160,
      1155, 1149, 1143, 1137, 1132, 1126, 1120, 1115, 1109, 1104,
      1098, 1093, 1087, 1082, 1076, 1071, 1066, 1060, 1055, 1050,
      1044, 1039, 1034, 1029, 1024, 1019, 1013, 1008, 1003, 998,
      993, 988, 983, 979, 974, 969, 964, 959, 954, 950,
      945, 940, 935, 931, 926, 921, 917, 912, 908, 903,
      899, 894, 890, 885, 881, 876, 872, 868, 863, 859,
      855, 850, 846, 842, 838, 833, 829, 825, 821, 817,
      813, 809, 805, 801, 797, 793, 789, 785, 781, 777,
      773, 769, 765, 761, 758, 754, 750, 746
    >>

\* The test of line 67 can succeed: accept_chance is 1.0 (delta <= 0), or
\* it is math.exp(-delta / temp) and above 0.0, the least value of
\* random.random().
CanAccept(delta, k) == delta <= 0 \/ delta <= AcceptLimit[k + 1]

\* solve(), lines 24-26.
SA_Begin ==
    /\ alg = "simulated_annealing" /\ pc = "start"
    /\ overall_best_sequence' = EmptyList(heap)
    /\ last_best_score' = Inf
    /\ LET c == copy(heap, 1)
       IN  heap' = Keep(c.heap, c.ref) /\ state' = KeptRef(c.ref)
    /\ pc' = "restart"
    /\ UNCHANGED <<board, map0, alg, result, idaVars, steps, moves_so_far,
                   score, best_score_this_run, best_sequence_this_run, perturb_left, candidate,
                   replayed>>

\* The restart with the score rounded to the nearest integer (round() in
\* place of int()).
SA_Restart_rounds ==
    /\ alg = "simulated_annealing" /\ pc = "restart"
    /\ moves_so_far' = EmptyList(heap)
    /\ LET c == copy(heap, 1)
       IN  heap' = Keep(c.heap, c.ref) /\ state' = KeptRef(c.ref)
    /\ perturb_left' = IF last_best_score = Inf THEN 5
                       ELSE Min2(10, Max2(3, IntOf(last_best_score + 5)))
    /\ pc' = "perturb"
    /\ UNCHANGED <<board, map0, alg, result, idaVars, steps, score, best_score_this_run,
                   best_sequence_this_run, last_best_score, overall_best_sequence, candidate,
                   replayed>>

\* solve(), lines 28-39: a restart begins on a fresh copy of self.map and
\* calls _perturb_initial_state with the adaptive number of moves.
SA_Restart ==
    /\ alg = "simulated_annealing" /\ pc = "restart"
    /\ moves_so_far' = EmptyList(heap)
    /\ LET c == copy(heap, 1)
       IN  heap' = Keep(c.heap, c.ref) /\ state' = KeptRef(c.ref)
    /\ perturb_left' = IF last_best_score = Inf THEN 5
                       ELSE Min2(10, Max2(3, IntOf(last_best_score)))
    /\ pc' = "perturb"
    /\ UNCHANGED <<board, map0, alg, result, idaVars, steps, score, best_score_this_run,
                   best_sequence_this_run, last_best_score, overall_best_sequence, candidate,
                   replayed>>

\* The perturbation walk with its moves written to the move log.
SA_Perturb_logged ==
    /\ alg = "simulated_annealing" /\ pc = "perturb"
    /\ perturb_left > 0
    /\ \E move \in Range(filter_possible_moves(board, heap[state])) :
          /\ heap' = [heap EXCEPT ![state] = apply_move(board, heap[state], move)]
          /\ moves_so_far' = ListAppend(board, heap, moves_so_far, move)
    /\ perturb_left' = perturb_left - 1
    /\ UNCHANGED <<board, map0, alg, pc, result, idaVars, state, steps,
                   score, best_score_this_run, best_sequence_this_run,
                   last_best_score, overall_best_sequence, candidate,
                   replayed>>

\* _perturb_initial_state, lines 94-99: one random legal move, applied to
\* the object it was given.
SA_Perturb ==
    /\ alg = "simulated_annealing" /\ pc = "perturb"
    /\ perturb_left > 0
    /\ \E move \in Range(filter_possible_moves(board, heap[state])) :
          heap' = [heap EXCEPT ![state] = apply_move(board, heap[state], move)]
    /\ perturb_left' = perturb_left - 1
    /\ UNCHANGED <<board, map0, alg, pc, result, idaVars, state, steps,
                   moves_so_far, score, best_score_this_run, best_sequence_this_run,
                   last_best_score, overall_best_sequence, candidate,
                   replayed>>

\* _perturb_initial_state returns (the range is exhausted, or line 96-97: no
\* legal move); solve(), lines 41-44.
SA_Perturbed ==
    /\ alg = "simulated_annealing" /\ pc = "perturb"
    /\ perturb_left = 0 \/ Len(filter_possible_moves(board, heap[state])) = 0
    /\ score' = heuristic(board, heap[state])
    /\ best_score_this_run' = heuristic(board, heap[state])
    /\ best_sequence_this_run' = EmptyList(heap)
    /\ steps' = 0
    /\ replayed' = [ok |-> TRUE, to |-> heap[state]]
    /\ perturb_left' = 0
    /\ pc' = "anneal"
    /\ UNCHANGED <<board, heap, map0, alg, result, idaVars, state,
                   moves_so_far, last_best_score, overall_best_sequence, candidate>>

\* The return of lines 47-50 without the call of _validate_solution.
SA_GoalValid_unchecked ==
    /\ alg = "simulated_annealing" /\ pc = "anneal" /\ Cooling
    /\ is_solved(board, heap[state])
    /\ result' = moves_so_far
    /\ pc' = "done"
    /\ UNCHANGED <<board, heap, map0, alg, idaVars, saVars>>

\* solve(), lines 47-50: a goal state whose move log replays to a goal from
\* self.map is returned.
SA_GoalValid ==
    /\ alg = "simulated_annealing" /\ pc = "anneal" /\ Cooling
    /\ is_solved(board, heap[state])
    /\ validate_solution(board, moves_so_far)
    /\ result' = moves_so_far
    /\ pc' = "done"
    /\ UNCHANGED <<board, heap, map0, alg, idaVars, saVars>>

\* solve(), lines 51-53: the log does not validate, the restart is left.
SA_GoalInvalid ==
    /\ alg = "simulated_annealing" /\ pc = "anneal" /\ Cooling
    /\ is_solved(board, heap[state])
    /\ ~validate_solution(board, moves_so_far)
    /\ pc' = "after"
    /\ UNCHANGED <<board, heap, map0, alg, result, idaVars, saVars>>

\* solve(), lines 55-57: no legal move, the restart is left.
SA_NoMoves ==
    /\ alg = "simulated_annealing" /\ pc = "anneal" /\ Cooling
    /\ ~is_solved(board, heap[state])
    /\ Len(filter_possible_moves(board, heap[state])) = 0
    /\ pc' = "after"
    /\ UNCHANGED <<board, heap, map0, alg, result, idaVars, saVars>>

\* solve(), lines 59-76, the candidate is accepted: always when
\* delta <= 0 (accept_chance is 1.0 and random() < 1.0), and by chance when
\* delta > 0 and accept_chance is not 0.0.
SA_Accept ==
    /\ alg = "simulated_annealing" /\ pc = "anneal" /\ Cooling
    /\ ~is_solved(board, heap[state])
    /\ \E move \in Range(filter_possible_moves(board, heap[state])) :
          LET c == copy(heap, state)
              h2 == [c.heap EXCEPT ![c.ref] = apply_move(board, c.heap[c.ref], move)]
              new_score == heuristic(board, h2[c.ref])
          IN  /\ CanAccept(new_score - score, steps)
              /\ heap' = Keep(h2, c.ref)
              /\ candidate' = [move |-> move, delta |-> new_score - score]
              /\ state' = KeptRef(c.ref)
              /\ score' = new_score
              /\ moves_so_far' = ListAppend(board, heap, moves_so_far, move)
              /\ replayed' = ReplayStep(board, replayed.to, replayed, move)
              /\ IF new_score < best_score_this_run
                   THEN /\ best_score_this_run' = new_score
                        /\ best_sequence_this_run' = ListAppend(board, heap, moves_so_far, move)
                   ELSE UNCHANGED <<best_score_this_run, best_sequence_this_run>>
    /\ steps' = steps + 1
    /\ UNCHANGED <<board, map0, alg, pc, result, idaVars, last_best_score,
                   overall_best_sequence, perturb_left>>

\* The step with the acceptance test failing whatever delta is.
SA_Reject_any ==
    /\ alg = "simulated_annealing" /\ pc = "anneal" /\ Cooling
    /\ ~is_solved(board, heap[state])
    /\ \E move \in Range(filter_possible_moves(board, heap[state])) :
          LET c == copy(heap, state)
              h2 == [c.heap EXCEPT ![c.ref] = apply_move(board, c.heap[c.ref], move)]
              delta == heuristic(board, h2[c.ref]) - score
          IN  /\ heap' = Keep(h2, state)
              /\ candidate' = [move |-> move, delta |-> delta]
    /\ steps' = steps + 1
    /\ UNCHANGED <<board, map0, alg, pc, result, idaVars, state, moves_so_far,
                   score, best_score_this_run, best_sequence_this_run, last_best_score,
                   overall_best_sequence, perturb_left, replayed>>

\* The step with the cooling and the count done only for an accepted move.
SA_Reject_uncounted ==
    /\ alg = "simulated_annealing" /\ pc = "anneal" /\ Cooling
    /\ ~is_solved(board, heap[state])
    /\ \E move \in Range(filter_possible_moves(board, heap[state])) :
          LET c == copy(heap, state)
              h2 == [c.heap EXCEPT ![c.ref] = apply_move(board, c.heap[c.ref], move)]
              delta == heuristic(board, h2[c.ref]) - score
          IN  /\ delta > 0
              /\ heap' = Keep(h2, state)
              /\ candidate' = [move |-> move, delta |-> delta]
    /\ steps' = steps
    /\ UNCHANGED <<board, map0, alg, pc, result, idaVars, state, moves_so_far,
                   score, best_score_this_run, best_sequence_this_run, last_best_score,
                   overall_best_sequence, perturb_left, replayed>>

\* solve(), lines 59-76, the candidate is rejected: only when delta > 0
\* (random() >= accept_chance, with accept_chance < 1).
SA_Reject ==
    /\ alg = "simulated_annealing" /\ pc = "anneal" /\ Cooling
    /\ ~is_solved(board, heap[state])
    /\ \E move \in Range(filter_possible_moves(board, heap[state])) :
          LET c == copy(heap, state)
              h2 == [c.heap EXCEPT ![c.ref] = apply_move(board, c.heap[c.ref], move)]
              delta == heuristic(board, h2[c.ref]) - score
          IN  /\ delta > 0
              /\ heap' = Keep(h2, state)
              /\ candidate' = [move |-> move, delta |-> delta]
    /\ steps' = steps + 1
    /\ UNCHANGED <<board, map0, alg, pc, result, idaVars, state, moves_so_far,
                   score, best_score_this_run, best_sequence_this_run, last_best_score,
                   overall_best_sequence, perturb_left, replayed>>

\* solve(), line 46: the loop condition is false.
SA_Cooled ==
    /\ alg = "simulated_annealing" /\ pc = "anneal" /\ ~Cooling
    /\ pc' = "after"
    /\ UNCHANGED <<board, heap, map0, alg, result, idaVars, saVars>>

\* The end of a restart with the return not guarded by a non-empty overall
\* best: solve() returns after the first restart.
SA_After_returns_always ==
    /\ alg = "simulated_annealing" /\ pc = "after"
    /\ last_best_score' = best_score_this_run
    /\ \E shorter \in BOOLEAN :
          LET adopt == /\ \/ overall_best_sequence.empty
                          \/ ~best_sequence_this_run.empty /\ shorter
                       /\ validate_solution(board, best_sequence_this_run)
              best == IF adopt THEN best_sequence_this_run ELSE overall_best_sequence
          IN  /\ overall_best_sequence' = best
              /\ result' = best
              /\ pc' = "done"
              /\ UNCHANGED <<moves_so_far, score, best_score_this_run,
                             best_sequence_this_run, steps, candidate, replayed>>
    /\ UNCHANGED <<board, heap, map0, alg, idaVars, state, perturb_left>>

\* solve(), lines 78-87: the restart's best sequence is adopted when it
\* validates, and a non-empty overall best is returned.  The lengths of the
\* lists are not held: shorter is either outcome of the comparison of line
\* 81, which is evaluated only when overall_best_sequence is not empty.
\* Otherwise the while True loop goes round: the locals that lines 31-44
\* assign again before anything reads them (moves_so_far, score,
\* best_score_this_run, best_sequence_this_run, steps, and move and delta of
\* lines 59 and 64) hold no information from here on and are set to their
\* initial values.
SA_After ==
    /\ alg = "simulated_annealing" /\ pc = "after"
    /\ last_best_score' = best_score_this_run
    /\ \E shorter \in BOOLEAN :
          LET adopt == /\ \/ overall_best_sequence.empty
                          \/ ~best_sequence_this_run.empty /\ shorter
                       /\ validate_solution(board, best_sequence_this_run)
              best == IF adopt THEN best_sequence_this_run ELSE overall_best_sequence
          IN  /\ overall_best_sequence' = best
              /\ IF ~best.empty
                   THEN /\ result' = best
                        /\ pc' = "done"
                        /\ UNCHANGED <<moves_so_far, score, best_score_this_run,
                                       best_sequence_this_run, steps, candidate,
                                       replayed>>
                   ELSE /\ result' = result
                        /\ pc' = "restart"
                        /\ moves_so_far' = EmptyList(heap)
                        /\ score' = 0
                        /\ best_score_this_run' = 0
                        /\ best_sequence_this_run' = EmptyList(heap)
                        /\ steps' = 0
                        /\ replayed' = [ok |-> TRUE, to |-> heap[1]]
                        /\ candidate' = [move |-> 0, delta |-> 0]
    /\ UNCHANGED <<board, heap, map0, alg, idaVars, state, perturb_left>>

\* One box in a corridor, one push from its target at the corridor's end;
\* the agent has the cell behind the box and the cell below that one.  The
\* board's explored_states counter is at 47: the score of the goal state is
\* 4.7.
Corridor ==
    <<MkBoard(2, 3, <<(<<0, 2>>)>>, <<(<<0, 2>>)>>, {<<1, 1>>, <<1, 2>>}, BaseOrder),
      MkState(<<0, 0>>, <<(<<0, 1>>)>>, 47)>>

\* A box on its target: the agent can walk below it and can push it off,
\* into the corner on the right.
SolvedPush ==
    <<MkBoard(2, 3, <<(<<0, 1>>)>>, <<(<<0, 1>>)>>, {<<1, 2>>}, BaseOrder),
      MkState(<<1, 0>>, <<(<<0, 1>>)>>, 0)>>

\* Two boxes against the right wall of a board of two columns, their targets
\* in the left column: no box can be pushed, and the agent has two cells.
TwoStuck ==
    <<MkBoard(2, 2, <<(<<0, 0>>), (<<1, 0>>)>>, <<(<<0, 0>>), (<<1, 0>>)>>, {}, BaseOrder),
      MkState(<<0, 0>>, <<(<<0, 1>>), (<<1, 1>>)>>, 0)>>

\* The boards solve() is run on: the two walled-in boards (the agent has no
\* move), the corridor, the solved board whose box can be pushed off and the
\* board with the stuck boxes.
InputsSA == {WalledIn, WalledInSolved, Corridor, SolvedPush, TwoStuck}

\* solve() is called on a solver as constructed.
InitSA ==
    /\ \E in \in InputsSA :
          /\ board = in[1]
          /\ heap = <<in[2]>>
          /\ map0 = in[2]
    /\ alg = "simulated_annealing"
    /\ pc = "start"
    /\ Fresh

NextSA ==
    \/ SA_Begin
    \/ SA_Restart
    \/ SA_Perturb
    \/ SA_Perturbed
    \/ SA_GoalValid
    \/ SA_GoalInvalid
    \/ SA_NoMoves
    \/ SA_Accept
    \/ SA_Reject
    \/ SA_Cooled
    \/ SA_After

SpecSA == InitSA /\ [][NextSA]_vars

\* solve() is called on one of the boards on which its runs are followed
\* under fairness.
InitSAFair ==
    /\ \E in \in {WalledIn, WalledInSolved, Corridor, TwoStuck} :
          /\ board = in[1]
          /\ heap = <<in[2]>>
          /\ map0 = in[2]
    /\ alg = "simulated_annealing"
    /\ pc = "start"
    /\ Fresh

\* solve() keeps running: the interpreter executes the next statement.
SpecSAFair == InitSAFair /\ [][NextSA]_vars /\ WF_vars(NextSA)

(* ------------------- the heuristics on their own ----------------------- *)
\* The pairs of distinct targets, in the order of the targets list.
TargetPairs ==
    {tp \in Cells \X Cells :
        tp[1][1] < tp[2][1] \/ (tp[1][1] = tp[2][1] /\ tp[1][2] < tp[2][2])}

\* The pairs of distinct boxes, the first one in the top left.
BoxPairs == {bp \in TopLeftCells \X Cells : bp[1] # bp[2]}

\* The heuristics are called on every board of two rows with two boxes and
\* two targets, at most MaxObstacles obstacles, both counter values and both
\* iteration orders of the target set.
InitHeur ==
    /\ \E tp \in TargetPairs, swap \in BOOLEAN, p \in Cells, bp \in BoxPairs,
          e \in ExploredValues,
          o \in {o \in SUBSET Cells : Cardinality(o) <= MaxObstacles} :
          LET b == MkBoard(2, GridWidth, <<tp[1], tp[2]>>,
                           IF swap THEN <<tp[2], tp[1]>> ELSE <<tp[1], tp[2]>>,
                           o, BaseOrder)
              s == MkState(p, <<bp[1], bp[2]>>, e)
          IN  /\ WellFormed(b, s)
              /\ board = b
              /\ heap = <<s>>
              /\ map0 = s
    /\ alg = "heuristics"
    /\ pc = "start"
    /\ Fresh

\* One call of a heuristic on the board; result is its value times 10.
Evaluate(name, value) ==
    /\ alg = "heuristics" /\ pc = "start"
    /\ pc' = name
    /\ result' = value
    /\ UNCHANGED <<board, heap, map0, alg, idaVars, saVars>>

Eval_simple == Evaluate("simple_heuristic", simple_heuristic(board, heap[1]))

Eval_matching == Evaluate("matching_heuristic", matching_heuristic(board, heap[1]))

Eval_ida_star == Evaluate("ida_star_heuristic", ida_star_heuristic(board, heap[1]))

Eval_target_matching ==
    Evaluate("target_matching_heuristic", target_matching_heuristic(board, heap[1]))

NextHeur ==
    \/ Eval_simple
    \/ Eval_matching
    \/ Eval_ida_star
    \/ Eval_target_matching

SpecHeur == InitHeur /\ [][NextHeur]_vars

(* --------------------------- is_deadlock alone ------------------------- *)
\* The cells of a grid of len rows and wid columns.
GridCells(len, wid) == {<<x, y>> : x \in 0..(len - 1), y \in 0..(wid - 1)}

\* The first cell of the set in row-major order.
FirstCell(cs) ==
    CHOOSE c \in cs : \A d \in cs : c[1] < d[1] \/ (c[1] = d[1] /\ c[2] <= d[2])

\* is_deadlock is called on the cell of the one box of every board of two or
\* three rows and two to GridWidth columns, with every set of obstacle cells
\* that leaves a cell for the box and one for the agent, the box on a target
\* or not.
InitDeadlock ==
    /\ \E len \in 2..3, wid \in 2..GridWidth, onTarget \in BOOLEAN :
          \E o \in SUBSET GridCells(len, wid) :
             \E bx \in GridCells(len, wid) \ o :
                /\ GridCells(len, wid) \ (o \cup {bx}) # {}
                /\ LET ts == IF onTarget THEN <<bx>> ELSE <<>>
                       p == FirstCell(GridCells(len, wid) \ (o \cup {bx}))
                   IN  /\ board = MkBoard(len, wid, ts, ts, o, BaseOrder)
                       /\ heap = <<MkState(p, <<bx>>, 0)>>
                       /\ map0 = MkState(p, <<bx>>, 0)
    /\ alg = "is_deadlock"
    /\ pc = "start"
    /\ Fresh

\* One call is_deadlock(state, box.x, box.y); result is the value returned.
Call_is_deadlock ==
    /\ alg = "is_deadlock" /\ pc = "start"
    /\ pc' = "is_deadlock"
    /\ result' = is_deadlock(board, heap[1].boxes[1][1], heap[1].boxes[1][2])
    /\ UNCHANGED <<board, heap, map0, alg, idaVars, saVars>>

NextDeadlock == Call_is_deadlock

SpecDeadlock == InitDeadlock /\ [][NextDeadlock]_vars

\* main.py, lines 40-46: one of the two solvers is constructed and solve()
\* is called.
Init == InitIDA \/ InitSA

Next == NextIDA \/ NextSA

Spec == Init /\ [][Next]_vars

(* ------------------------------ properties ----------------------------- *)
\* C1: every non-empty move sequence IDAStarSolver.solve() returns, replayed
\* move by move from the original initial state, meets no illegal move and
\* ends with every box on a target.
C1_ReplayReachesGoal ==
    (alg = "ida_star" /\ pc = "done" /\ Len(result) > 0)
        => LET r == Replay(board, map0, result)
           IN  r.ok /\ is_solved(board, r.state)

\* solve() has returned a sequence of at least three moves that is not its
\* own reverse.
C1_Witness ==
    /\ alg = "ida_star" /\ pc = "done"
    /\ Len(result) >= 3
    /\ result # Reverse(result)

\* C2: every move sequence SimulatedAnnealingSolver.solve() returns, from the
\* annealing loop or after it, replays from the true initial state without
\* an illegal move and ends in a goal state.
C2_ReturnedSequenceValidates ==
    (alg = "simulated_annealing" /\ pc = "done")
        => /\ result.ok
           /\ is_solved(board, result.to)
           /\ heap[1] = map0

\* solve() has returned a non-empty list after the loop of a restart: the
\* loop had made all its passes, and an earlier restart had ended without a
\* list to return.
C2_Witness ==
    /\ alg = "simulated_annealing" /\ pc = "done"
    /\ ~result.empty
    /\ steps = CoolingSteps
    /\ last_best_score # Inf
    /\ result = best_sequence_this_run

\* C3: IDAStarSolver.solve() terminates; on a board from which no goal state
\* is reachable it returns the empty sequence; and no depth-first iteration
\* runs with limit at or above the ceiling 10000.
C3_TerminatesBelowCeiling ==
    /\ <>(pc = "done")
    /\ []((pc = "done" /\ ~Solvable(board, map0)) => result = <<>>)
    /\ [](pc = "dfs" => limit < Ceiling * Scale)

\* solve() has returned on an unsolvable board after at least one iteration,
\* with limit at the ceiling.
C3_Witness ==
    /\ alg = "ida_star" /\ pc = "done"
    /\ ~Solvable(board, map0)
    /\ iterations >= 1
    /\ limit >= Ceiling * Scale

\* C4: on a board whose initial state is a goal, IDAStarSolver.solve()
\* returns the empty sequence in its first outer iteration and applies no
\* move to any copy of the state.
C4_GoalAtStartIDA ==
    (alg = "ida_star" /\ pc = "done" /\ is_solved(board, map0))
        => (result = <<>> /\ iterations = 1 /\ applied = 0)

\* solve() has returned on a solved board on which the agent has a legal
\* move, after one call of _depth_first.
C4_Witness ==
    /\ alg = "ida_star" /\ pc = "done"
    /\ is_solved(board, map0)
    /\ Len(filter_possible_moves(board, map0)) > 0
    /\ map0.explored_states > 0
    /\ explored_states = 1

\* C5: on a board whose initial state is a goal, every execution of
\* SimulatedAnnealingSolver.solve() that returns, returns the empty sequence.
C5_GoalAtStartSA ==
    (alg = "simulated_annealing" /\ pc = "done" /\ is_solved(board, map0))
        => result.empty

\* C6: on a board with one box that one push solves, IDAStarSolver.solve()
\* returns exactly one move, and that move replayed from the initial state
\* reaches the goal, whatever the obstacles and the order of the legal moves.
C6_OnePushOneMove ==
    (alg = "ida_star" /\ pc = "done" /\ Len(map0.boxes) = 1 /\ OnePush(board, map0))
        => /\ Len(result) = 1
           /\ LET r == Replay(board, map0, result)
              IN  r.ok /\ is_solved(board, r.state)

\* solve() has returned on a one-push board with an obstacle, where the
\* first legal move in the order of the moves is not the solving push.
C6_Witness ==
    /\ alg = "ida_star" /\ pc = "done"
    /\ Len(map0.boxes) = 1 /\ OnePush(board, map0)
    /\ board.obstacles # {}
    /\ Len(result) = 1
    /\ Head(filter_possible_moves(board, map0)) # result[1]

\* C7: once IDAStarSolver.solve() has set limit, limit never decreases, and
\* an iteration that ends without a solution and without an infinite result
\* (solve() goes back to the loop test) leaves limit strictly greater.
C7_LimitMonotone ==
    [][/\ (pc # "start") => (limit' >= limit)
       /\ (pc = "dfs" /\ pc' = "while") => (limit' > limit)]_vars

\* The third outer iteration is running: limit has been raised twice.
C7_Witness ==
    /\ alg = "ida_star" /\ pc = "dfs"
    /\ iterations >= 3
    /\ limit > heuristic(board, map0)

\* C8: SimulatedAnnealingSolver.solve() returns the empty sequence only when
\* the initial state is a goal, and it never returns on a board from which
\* no goal state is reachable.
C8_NoEmptyGiveUp ==
    (alg = "simulated_annealing" /\ pc = "done")
        => /\ result.empty => is_solved(board, map0)
           /\ Solvable(board, map0)

\* On a board with no reachable goal, where the agent can move, a restart
\* has run to its end (its loop has cooled down) and the restart loop has
\* come round: solve() is about to start another restart.
C8_Witness ==
    /\ alg = "simulated_annealing" /\ pc = "restart"
    /\ ~Solvable(board, map0)
    /\ last_best_score # Inf
    /\ Len(filter_possible_moves(board, map0)) > 0

\* C9: at every point of both solvers the agent position and the box
\* positions of the initial Board State the solver holds (self.map) are
\* those it was constructed with.
C9_InitialStateUntouched ==
    /\ heap[1].player = map0.player
    /\ heap[1].boxes = map0.boxes

\* The annealing loop has accepted moves and the state it works on has a box
\* pushed away from where the initial state has it.
C9_Witness ==
    /\ alg = "simulated_annealing" /\ pc = "anneal"
    /\ ~moves_so_far.empty
    /\ state # 1
    /\ heap[state].boxes # map0.boxes

\* C10 as stated: on a board in goal configuration each of the four
\* heuristics returns a value <= 0, for every value of the board's
\* explored_states counter.
C10_AllNonPositiveAtGoal ==
    (alg = "heuristics" /\ pc # "start" /\ is_solved(board, map0))
        => result <= 0

\* C10 amended: on a board in goal configuration simple_heuristic,
\* matching_heuristic and ida_star_heuristic return a value <= 0 for every
\* value of the counter, and target_matching_heuristic returns 0.1 times the
\* counter (result is the value times 10), which is <= 0 only when the
\* counter is 0.
C10_GoalValues ==
    (alg = "heuristics" /\ pc # "start" /\ is_solved(board, map0))
        => IF pc = "target_matching_heuristic"
             THEN result = map0.explored_states
             ELSE result <= 0

\* target_matching_heuristic has returned a positive value on a board in
\* goal configuration whose counter is not 0.
C10_Witness ==
    /\ alg = "heuristics" /\ pc = "target_matching_heuristic"
    /\ is_solved(board, map0)
    /\ map0.explored_states > 0
    /\ result > 0

\* The matching made by the heuristic that was evaluated.
Assigned ==
    IF pc = "matching_heuristic"
      THEN MatchingAssigned(Unplaced(board, heap[1]), board.targets)
      ELSE TargetMatchingAssigned(Unplaced(board, heap[1]), board.set_order)

\* C11: within one evaluation of matching_heuristic or of
\* target_matching_heuristic no target is given to two boxes, a target that
\* was given to a box is not in the pool of any later box, and on a board
\* with as many targets as boxes every unplaced box finds a non-empty pool.
C11_NoDoubleAssignment ==
    (alg = "heuristics" /\ pc \in {"matching_heuristic", "target_matching_heuristic"})
        => LET tr == Assigned
           IN  /\ \A i \in DOMAIN tr, j \in DOMAIN tr :
                     (i < j /\ tr[i].matched)
                         => /\ tr[i].target \notin Range(tr[j].pool)
                            /\ tr[j].matched => tr[j].target # tr[i].target
               /\ (Len(board.targets) = Len(heap[1].boxes))
                     => /\ Len(tr) = Len(Unplaced(board, heap[1]))
                        /\ \A i \in DOMAIN tr : tr[i].matched /\ Len(tr[i].pool) > 0

\* Two unplaced boxes whose nearest target in the full pool is the same one
\* have been matched: the second got the other target.
C11_Witness ==
    /\ alg = "heuristics" /\ pc \in {"matching_heuristic", "target_matching_heuristic"}
    /\ LET tr == Assigned
       IN  /\ Len(tr) = 2
           /\ FirstNearest(tr[1].pool, tr[2].box) = tr[1].target
           /\ tr[2].matched /\ tr[2].target # tr[1].target

\* C12: is_deadlock(state, x, y) is true exactly when (x, y) is one of the
\* four corner cells of the grid or has an obstacle on one of the two
\* neighbours along one axis and an obstacle on one of the two neighbours
\* along the other; the cell (0, 0) is flagged whatever the obstacles, and
\* the value is the same whether or not the cell is a target.
C12_DeadlockExactly ==
    (alg = "is_deadlock" /\ pc = "is_deadlock")
        => LET x == heap[1].boxes[1][1]
               y == heap[1].boxes[1][2]
               corners == {<<0, 0>>, <<0, board.width - 1>>, <<board.length - 1, 0>>,
                           <<board.length - 1, board.width - 1>>}
               alongX == {<<x - 1, y>>, <<x + 1, y>>} \cap board.obstacles # {}
               alongY == {<<x, y - 1>>, <<x, y + 1>>} \cap board.obstacles # {}
           IN  /\ result = (<<x, y>> \in corners \/ (alongX /\ alongY))
               /\ (<<x, y>> = <<0, 0>>) => (result = TRUE)
               /\ result = is_deadlock([board EXCEPT !.targets = <<>>, !.set_order = <<>>], x, y)

\* is_deadlock has returned true for a target cell that is not a corner of
\* the grid and has exactly two obstacle neighbours.
C12_Witness ==
    /\ alg = "is_deadlock" /\ pc = "is_deadlock"
    /\ result = TRUE
    /\ heap[1].boxes[1] \in TargetSet(board)
    /\ heap[1].boxes[1][1] = 1 /\ board.length = 3
    /\ Cardinality(board.obstacles) = 2

\* C13: within one outer iteration of IDAStarSolver.solve() no canonical
\* state is entered by _depth_first twice: a move whose successor was
\* already visited in this iteration, the initial state included, is not
\* recursed into.
C13_EnteredAtMostOnce ==
    (alg = "ida_star")
        => \A i \in DOMAIN entered, j \in DOMAIN entered :
               (i < j) => entered[i].hash # entered[j].hash

\* C14: the parent map is empty when an outer iteration of
\* IDAStarSolver.solve() starts; during an iteration an entry that was
\* recorded stays as it is; and every entry (parent, move) of a state is a
\* legal move from the parent that yields the state.
C14_ParentFirstDiscovery ==
    /\ [][/\ (pc = "while" /\ pc' = "dfs") => (parent' = EmptyMap)
          /\ (pc = "dfs")
                => \A k \in DOMAIN parent :
                       k \in DOMAIN parent' /\ parent'[k] = parent[k]]_vars
    /\ [](\A k \in DOMAIN parent :
             /\ is_valid_move(board, StateOf(parent[k][1]), parent[k][2])
             /\ Str(apply_move(board, StateOf(parent[k][1]), parent[k][2])) = k)

\* In a second or later iteration a call on the stack has tried a legal
\* move whose successor had an entry made from another (parent, move) pair:
\* the rediscovery was skipped and the entry is the earlier one.
C14_Witness ==
    /\ alg = "ida_star" /\ pc = "dfs"
    /\ iterations >= 2
    /\ \E i \in DOMAIN stack :
          /\ stack[i].at = "loop"
          /\ \E m \in Moves :
                /\ is_valid_move(board, heap[stack[i].ref], m)
                /\ m \notin Range(stack[i].moves)
                /\ LET k == Str(apply_move(board, heap[stack[i].ref], m))
                   IN  /\ k \in DOMAIN parent
                       /\ parent[k] # <<Str(heap[stack[i].ref]), m>>

\* C15 as stated: the number of perturbation moves a restart asks for is 5
\* when there is no previous best score, and otherwise the previous
\* restart's best score rounded to the nearest integer (a tie going up, or
\* to the even neighbour) and clamped to 3..10.  Scores are held times 10.
C15_RoundedPerturbCount ==
    [][(pc = "restart" /\ pc' = "perturb")
          => IF last_best_score = Inf THEN perturb_left' = 5
             ELSE LET below == last_best_score \div Scale
                      frac == last_best_score % Scale
                      nearest == IF 2 * frac < Scale THEN {below}
                                 ELSE IF 2 * frac > Scale THEN {below + 1}
                                 ELSE {below + 1} \cup {n \in {below} : n % 2 = 0}
                  IN  perturb_left' \in {Min2(10, Max2(3, n)) : n \in nearest}]_vars

\* C15 amended: the number is 5 when there is no previous best score, and
\* otherwise the previous restart's best score with its fraction cut off,
\* clamped to 3..10: the n in 3..10 with n <= score < n + 1, or 3 for a score
\* below 3, or 10 for a score of 10 or more.  The previous best score is the
\* restart's best_score_this_run, which is never above the current score.
C15_TruncatedPerturbCount ==
    /\ [][/\ (pc = "restart" /\ pc' = "perturb")
                => /\ perturb_left' \in {5} \cup (3..10)
                   /\ IF last_best_score = Inf THEN perturb_left' = 5
                      ELSE LET n == perturb_left'
                           IN  \/ n * Scale <= last_best_score /\ last_best_score < (n + 1) * Scale
                               \/ n = 3 /\ last_best_score < 3 * Scale
                               \/ n = 10 /\ last_best_score >= 10 * Scale
          /\ (pc = "after") => (last_best_score' = best_score_this_run)]_vars
    /\ []((alg = "simulated_annealing" /\ pc = "anneal") => best_score_this_run <= score)

\* A second or later restart is in its perturbation walk and has asked for
\* the cut-off value of a previous best score whose fraction is above a
\* half (rounding takes it up), in the range where the clamp leaves it
\* alone.
C15_Witness ==
    /\ alg = "simulated_annealing" /\ pc = "perturb"
    /\ last_best_score >= 3 * Scale /\ last_best_score < 10 * Scale
    /\ 2 * (last_best_score % Scale) > Scale
    /\ perturb_left = last_best_score \div Scale

\* C16: in an annealing step the candidate is a legal move of the current
\* state and delta is its score minus the current score; a candidate with
\* delta <= 0 is accepted; on acceptance the current state and score are
\* the candidate's and the move is appended to the move log; on rejection
\* the current state, the score, the move log and the best score and best
\* sequence of the restart are unchanged.  (A move takes the agent to
\* another cell: the step has accepted when the current state is another.)
C16_AcceptanceFrame ==
    [][(pc = "anneal" /\ steps' = steps + 1)
          => LET move == candidate'.move
                 new_state == apply_move(board, heap[state], move)
                 new_score == heuristic(board, new_state)
                 accepted == heap'[state'] # heap[state]
             IN  /\ is_valid_move(board, heap[state], move)
                 /\ candidate'.delta = new_score - score
                 /\ (candidate'.delta <= 0) => accepted
                 /\ accepted => /\ heap'[state'] = new_state
                                /\ score' = new_score
                                /\ moves_so_far' = ListAppend(board, heap, moves_so_far, move)
                 /\ ~accepted => /\ score' = score
                                 /\ moves_so_far' = moves_so_far
                                 /\ best_score_this_run' = best_score_this_run
                                 /\ best_sequence_this_run' = best_sequence_this_run]_vars

\* The last annealing step accepted a move with delta = 0, late in the
\* loop of a restart.
C16_Witness ==
    /\ alg = "simulated_annealing" /\ pc = "anneal"
    /\ steps >= CoolingSteps - 1
    /\ candidate.delta = 0
    /\ ~moves_so_far.empty

\* C17: the inner loop of every annealing restart ends: each pass of the
\* loop that stays in it, accepting or rejecting, cools once and counts one
\* step (temp is start_temp * cool_factor^steps), and the loop is left only
\* when the loop condition fails (temp no longer above end_temp, or
\* max_steps reached), the state has no legal move, or the state is a goal.
\* The count never passes CoolingSteps, and with the count at CoolingSteps
\* the next pass leaves the loop.
C17_InnerLoopEnds ==
    /\ (pc = "anneal") ~> (pc # "anneal")
    /\ [][/\ (pc = "anneal" /\ pc' = "anneal") => (steps' = steps + 1)
          /\ (pc = "anneal" /\ steps >= CoolingSteps) => (pc' # "anneal")
          /\ (pc = "anneal" /\ pc' # "anneal")
                => \/ ~(steps < CoolingSteps)
                   \/ ~(steps < max_steps)
                   \/ Len(filter_possible_moves(board, heap[state])) = 0
                   \/ is_solved(board, heap[state])]_vars
    /\ [](pc = "anneal" => steps <= CoolingSteps /\ steps <= max_steps)

\* The inner loop has ended by cooling, after CoolingSteps passes in which
\* a move was accepted and the last candidate, one that makes the score
\* worse, was rejected or accepted by chance.
C17_Witness ==
    /\ alg = "simulated_annealing" /\ pc = "after"
    /\ steps = CoolingSteps
    /\ ~moves_so_far.empty
    /\ candidate.delta > 0

\* C18: on a board whose initial state is not a goal and from which a goal
\* is reachable, IDAStarSolver.solve() returns a non-empty sequence unless
\* limit reached the ceiling; and when it returns the empty sequence below
\* the ceiling on an unsolved board (the last iteration returned infinity),
\* no call of that iteration was pruned and the states it entered are all
\* the states reachable from the initial state.
C18_SolvableIsSolved ==
    (alg = "ida_star" /\ pc = "done" /\ ~is_solved(board, map0) /\ limit < Ceiling * Scale)
        => /\ Solvable(board, map0) => Len(result) > 0
           /\ (result = <<>>)
                 => /\ \A i \in DOMAIN entered : entered[i].f <= limit
                    /\ {entered[i].hash : i \in DOMAIN entered}
                         = {Str(s) : s \in Reach(board, {map0}, {map0})}

\* solve() has returned a sequence of four or more moves on a solvable
\* board, in its third or a later iteration.
C18_Witness ==
    /\ alg = "ida_star" /\ pc = "done"
    /\ ~is_solved(board, map0) /\ Solvable(board, map0)
    /\ iterations >= 3
    /\ Len(result) >= 4

\* C19: during the perturbation walk of a restart the move log stays empty,
\* and from the end of the walk to the end of the restart the current state
\* is the state the walk returned with the move log applied to it, every
\* move of the log being legal where it is applied: the log starts at the
\* perturbed state, not at the initial state that validation replays from.
C19_LogFromPerturbedStart ==
    (alg = "simulated_annealing")
        => /\ (pc = "perturb") => (moves_so_far = EmptyList(heap))
           /\ (pc \in {"anneal", "after"})
                 => /\ replayed.ok
                    /\ replayed.to = heap[state]

\* The annealing loop is at a goal state with a non-empty move log, and the
\* log replayed from the true initial state meets an illegal move or does
\* not lead to the current state.
C19_Witness ==
    /\ alg = "simulated_annealing" /\ pc = "anneal"
    /\ ~moves_so_far.empty
    /\ is_solved(board, heap[state])
    /\ replayed.to = heap[state]
    /\ ~moves_so_far.ok \/ moves_so_far.to # heap[state]

=============================================================================
